---- MODULE Spec2Model ----
(***************************************************************************)
(* Model of the playback pipeline of apps/web/src/lib/playback:            *)
(* PlaybackEngine (playback-engine.ts), VideoDecoderManager (types.ts,     *)
(* lines 71-456), FrameScheduler (frame-scheduler.ts) and the parts of     *)
(* MP4Demuxer (demuxer.ts) the Decoder Manager drives, together with the   *)
(* browser objects they talk to: fetch + AbortController, the WebCodecs    *)
(* VideoDecoder (an asynchronous queue of chunks and flush requests) and   *)
(* requestAnimationFrame.                                                  *)
(*                                                                         *)
(* Every handler of the code (a public call, a promise continuation, a     *)
(* decoder callback, an animation-frame callback) is one action.  The      *)
(* handlers are written as operators over a record s of all the fields,    *)
(* named after the methods they model; an action applies them to the       *)
(* current state Cur and commits the result.                               *)
(*                                                                         *)
(* Times are integers: microseconds (Us) and milliseconds (Ms), as in the  *)
(* code; the playback rate is kept in tenths (10 = 1.0).                   *)
(***************************************************************************)
EXTENDS Integers, Sequences, FiniteSets, TLC

(* ------------------------------ bounds -------------------------------- *)

\* Number of coded video samples in the media file that is loaded.
NumSamples == 4

\* Number of load and seek calls the host makes in one behaviour.
MaxOps == 2

\* VideoDecoderManager.maxBufferedFrames, the bufferSize the engine is
\* configured with (30 by default).
maxBufferedFrames == 2

\* Every KeyInterval-th sample is a sync sample (sample.is_sync).
KeyInterval == 2

(* ------------------------- program constants -------------------------- *)

\* Look-behind window of onPlaybackTick: consumeFramesUpTo(t - 100_000).
LookBehindUs == 100000

\* seekMs: timeMs * 1000; getCurrentTimeMs: currentTimeUs / 1000.
UsPerMs == 1000

\* FrameScheduler.playbackRate = 1.0, in tenths.
DefaultRate10 == 10

(* ------------------------------ the media ----------------------------- *)

\* Duration of one sample (sample.duration * 1e6 / timescale): 20 fps.
FrameDurationUs == 50 * UsPerMs

\* Movie duration in ms: (info.duration / info.timescale) * 1000.
MediaDurationMs == (NumSamples * FrameDurationUs) \div UsPerMs

\* What the fetched bytes can be: a playable file, a file mp4box cannot
\* parse, and an avc1 file without a usable avcC box.
FileKinds == {"valid", "short", "malformed", "noAvcC"}

\* Number of samples in the video track of the short file, a second media
\* that is well formed like the valid one.
ShortSamples == 1

\* Number of samples in the video track of a file that has one.
TrackLength(kind) == IF kind = "short" THEN ShortSamples ELSE NumSamples

\* info.durationMs of a file.
DurationMs(kind) == (TrackLength(kind) * FrameDurationUs) \div UsPerMs

\* What new VideoDecoder(...) and decoder.configure(config) can do.
InitOutcomes == {"ok", "ctorThrows", "configThrows"}

\* Elapsed wall time (ms) between two animation-frame callbacks.
TickDeltasMs == {50, 150}

\* Times (ms) the host seeks to.
SeekTimesMs == {0, 100, MediaDurationMs}

Null == "null"

\* mediaInfo === null.
NoInfo == 0 - 1

\* Number.NaN as a value of currentTimeUs (every real time of the model is
\* a multiple of 100 microseconds).
NaN == 0 - 1

\* No tick event was emitted since the last seek event.
NoTick == NaN - 1

\* Limits of FrameScheduler.setPlaybackRate, 0.1 and 4.0, in tenths.
MinRate10 == 1
MaxRate10 == 40

\* Rates the host asks for, in tenths: 0, 1.0 and 10.
Rates10 == {0, DefaultRate10, 100}

PlaybackStates ==
  {"idle", "loading", "ready", "playing", "paused", "seeking", "error"}

(* ------------------------------ state --------------------------------- *)

VARIABLES
  \* PlaybackEngine
  state,                \* PlaybackEngine.state
  mediaInfo,            \* PlaybackEngine.mediaInfo: NoInfo or durationMs
  lastRenderedFrame,    \* PlaybackEngine.lastRenderedFrame: NoFrame or a frame
  \* FrameScheduler
  isPlaying,            \* FrameScheduler.isPlaying
  currentTimeUs,        \* FrameScheduler.currentTimeUs
  durationUs,           \* FrameScheduler.durationUs
  playbackRate,         \* FrameScheduler.playbackRate, in tenths
  loop,                 \* FrameScheduler.loop
  lastFrameTime,        \* FrameScheduler.lastFrameTime: Null or "set"
  rafPending,           \* animation-frame callbacks requested, not yet run
  rafId,                \* FrameScheduler.rafId: Null, "live" or "fired"
  \* VideoDecoderManager
  dmState,              \* VideoDecoderManager.state
  decoder,              \* Null or the VideoDecoder's state
  dmMediaInfo,          \* VideoDecoderManager.mediaInfo
  pendingSamples,       \* VideoDecoderManager.pendingSamples
  decodedFrames,        \* VideoDecoderManager.decodedFrames
  openFrames,           \* VideoFrames held and open (Unheld: one was let go)
  lastTickUs,           \* time of the last tick event since the last seek
  resumed,              \* no callback has run since play() or a running seek
  supersededLoad,       \* promise of a load that a later load replaced
  abortController,      \* Null, "live" or "aborted"
  loadPromiseReject,    \* TRUE when a rejector is stored
  sourceBuffer,         \* Null or the kind of file that was fetched
  hasFullSourceBuffered,
  demuxerCallbacks,     \* TRUE when the callback bundle is stored
  demuxer,              \* Null, "empty", "moov" or "extracting"
  listeners,            \* events whose listeners of before the first load
                        \* are still in the Decoder Manager's listener map
  \* browser side
  loadPromise,          \* promise returned by the last load
  fetchState,           \* fetch of the last load
  timers,               \* armed 15 s timeout timers
  decodeQueue,          \* VideoDecoder's queue: chunks and flush requests
  drawn,                \* frame last handed to compositor.drawFrame
  disposed,             \* engine.dispose() was called
  \* bookkeeping of the model
  epoch,                \* number of clearBuffers() calls of seek/load so far
  ops,                  \* load and seek calls made so far
  events,               \* events emitted by the last action, in order
  last,                 \* what the last action was, and how it began
  hist,                 \* what the host has done since the last load
  \* CanvasCompositor
  comp                  \* the compositor, its canvas and its conversions

engineVars ==
  << state, mediaInfo, lastRenderedFrame, isPlaying, currentTimeUs,
     durationUs, playbackRate, loop, lastFrameTime, rafPending, rafId,
     dmState,
     decoder, dmMediaInfo, pendingSamples, decodedFrames, abortController,
     loadPromiseReject, sourceBuffer, hasFullSourceBuffered,
     demuxerCallbacks, demuxer, loadPromise, fetchState, timers,
     decodeQueue, drawn, epoch, ops, events, last, hist, listeners,
     disposed, openFrames, lastTickUs, resumed, supersededLoad >>

vars == << engineVars, comp >>

\* lastRenderedFrame === null, and the "no frame" result of getFrameAtTime.
NoFrame ==
  [ idx |-> 0 - 1, timestampUs |-> 0, durationUs |-> 0, isKeyframe |-> FALSE,
    ep |-> 0 ]

\* The VideoFrame a decoded frame holds: the frame of sample idx as decoded
\* after the load or seek of epoch ep.
FrameId(frame) == <<frame.idx, frame.ep>>

\* The VideoFrames the program still holds: those of the buffered frames and
\* of the last rendered frame.
Held(s) ==
  {FrameId(s.decodedFrames[i]) : i \in 1..Len(s.decodedFrames)}
    \cup {FrameId(s.lastRenderedFrame)}

\* Marks that the step just taken let go of a VideoFrame that was open:
\* nothing can close such a frame any more.
Unheld == FrameId([NoFrame EXCEPT !.ep = NoFrame.idx])

\* The open VideoFrames after a step, those no longer held replaced by
\* Unheld.
StillOpen(s) ==
  IF s.openFrames \subseteq Held(s)
  THEN s.openFrames
  ELSE (s.openFrames \cap Held(s)) \cup {Unheld}

\* The current state as one record.
Cur ==
  [ state |-> state, mediaInfo |-> mediaInfo,
    lastRenderedFrame |-> lastRenderedFrame, isPlaying |-> isPlaying,
    currentTimeUs |-> currentTimeUs, durationUs |-> durationUs,
    playbackRate |-> playbackRate, loop |-> loop,
    lastFrameTime |-> lastFrameTime, rafPending |-> rafPending,
    dmState |-> dmState, decoder |-> decoder, dmMediaInfo |-> dmMediaInfo,
    pendingSamples |-> pendingSamples, decodedFrames |-> decodedFrames,
    abortController |-> abortController,
    loadPromiseReject |-> loadPromiseReject, sourceBuffer |-> sourceBuffer,
    hasFullSourceBuffered |-> hasFullSourceBuffered,
    demuxerCallbacks |-> demuxerCallbacks, demuxer |-> demuxer,
    loadPromise |-> loadPromise, fetchState |-> fetchState,
    timers |-> timers, decodeQueue |-> decodeQueue, drawn |-> drawn,
    rafId |-> rafId, epoch |-> epoch, ops |-> ops, hist |-> hist,
    listeners |-> listeners, disposed |-> disposed,
    openFrames |-> openFrames \ {Unheld}, lastTickUs |-> lastTickUs,
    resumed |-> resumed, supersededLoad |-> supersededLoad,
    \* not state: what the handler being run has done so far
    events |-> << >>, failLoads |-> 0, seekDone |-> FALSE ]

\* The next state is the record r; l describes the action that was taken.
\* A call that changes no field and emits no event leaves the bookkeeping
\* as it is: it is a stuttering step.
Commit(r, l) ==
  IF r = Cur THEN UNCHANGED vars ELSE
  /\ state' = r.state
  /\ mediaInfo' = r.mediaInfo
  /\ lastRenderedFrame' = r.lastRenderedFrame
  /\ isPlaying' = r.isPlaying
  /\ currentTimeUs' = r.currentTimeUs
  /\ durationUs' = r.durationUs
  /\ playbackRate' = r.playbackRate
  /\ loop' = r.loop
  /\ lastFrameTime' = r.lastFrameTime
  /\ rafPending' = r.rafPending
  /\ rafId' = r.rafId
  /\ dmState' = r.dmState
  /\ decoder' = r.decoder
  /\ dmMediaInfo' = r.dmMediaInfo
  /\ pendingSamples' = r.pendingSamples
  /\ decodedFrames' = r.decodedFrames
  /\ abortController' = r.abortController
  /\ loadPromiseReject' = r.loadPromiseReject
  /\ sourceBuffer' = r.sourceBuffer
  /\ hasFullSourceBuffered' = r.hasFullSourceBuffered
  /\ demuxerCallbacks' = r.demuxerCallbacks
  /\ demuxer' = r.demuxer
  /\ loadPromise' = r.loadPromise
  /\ fetchState' = r.fetchState
  /\ timers' = r.timers
  /\ decodeQueue' = r.decodeQueue
  /\ drawn' = r.drawn
  /\ epoch' = r.epoch
  /\ ops' = r.ops
  /\ hist' = r.hist
  /\ listeners' = r.listeners
  /\ openFrames' = StillOpen(r)
  /\ lastTickUs' = r.lastTickUs
  /\ resumed' = r.resumed
  /\ supersededLoad' = r.supersededLoad
  /\ disposed' = r.disposed
  /\ events' = r.events
  /\ comp' = comp
  /\ last' = l @@ [failLoads |-> r.failLoads]

Max(a, b) == IF a >= b THEN a ELSE b
Min(a, b) == IF a <= b THEN a ELSE b
Abs(a) == IF a >= 0 THEN a ELSE 0 - a

emit(s, e) == [s EXCEPT !.events = Append(@, e)]

\* The events of VideoDecoderManager that the engine's constructor and the
\* host subscribe to before the first load.
DecoderEvents == {"stateChange", "infoReady", "frameDecoded", "error"}

\* EventEmitter.emit of the Decoder Manager: an emission that finds the
\* listeners of the event in the listener map is recorded by its name, one
\* that finds none as lost.  The engine's handlers below run only in the
\* first case.
dmEmit(s, event, e) ==
  [s EXCEPT !.events = Append(@, IF event \in s.listeners
                                 THEN e ELSE <<"dm.lost", event>>)]

(* ------------------------------ samples ------------------------------- *)

\* A demuxed sample (DemuxedSample): idx is its position in the track; ep is
\* the epoch of the load or seek whose demuxer pass produced it.
Sample(i, ep) ==
  [ idx |-> i, timestampUs |-> i * FrameDurationUs,
    durationUs |-> FrameDurationUs, isKeyframe |-> (i % KeyInterval = 0),
    ep |-> ep ]

\* The samples the demuxer hands over from sample i on, in track order.
SamplesOf(kind, i, ep) ==
  [k \in 1..(TrackLength(kind) - i) |-> Sample(i + k - 1, ep)]

\* The same for the valid file.
SamplesFrom(i, ep) == SamplesOf("valid", i, ep)

\* Where mp4box's seek(time, useRap = true) repositions the track: the last
\* sync sample among those that start at or before the time (the last sync
\* sample of the track when no sample starts later, also for NaN).
SeekSampleIndexIn(kind, timeUs) ==
  LET at == IF timeUs = NaN
            THEN TrackLength(kind) - 1
            ELSE Max(0, Min(TrackLength(kind) - 1,
                            timeUs \div FrameDurationUs))
  IN  at - (at % KeyInterval)

\* The same for the valid file.
SeekSampleIndex(timeUs) == SeekSampleIndexIn("valid", timeUs)

\* SeekSampleIndex takes the time in microseconds: the code passes
\* timeUs / 1000 as milliseconds and mp4box divides by 1000 again, in
\* floating point, so no rounding happens on the way.

\* Entries of the VideoDecoder's work queue.
Chunk(sample) == [kind |-> "chunk", sample |-> sample, timeUs |-> 0]
FlushRequest(timeUs, ep) ==
  [kind |-> "flush", sample |-> [NoFrame EXCEPT !.ep = ep], timeUs |-> timeUs]

(* --------------------------- PlaybackEngine --------------------------- *)

\* PlaybackEngine.setState
setState(s, newState) ==
  IF s.state # newState
  THEN emit([s EXCEPT !.state = newState], <<"stateChange", newState>>)
  ELSE s

\* VideoDecoderManager.getFrameAtTime: the first frame of the buffer with the
\* smallest |timestampUs - timeUs|.
getFrameAtTime(frames, timeUs) ==
  IF frames = << >>
  THEN NoFrame
  ELSE IF timeUs = NaN
  THEN NoFrame
  ELSE LET diff(i) == Abs(frames[i].timestampUs - timeUs)
           best == CHOOSE i \in 1..Len(frames) :
                     /\ \A j \in 1..Len(frames) : diff(i) <= diff(j)
                     /\ \A j \in 1..(i - 1) : diff(j) > diff(i)
       IN  frames[best]

\* CanvasCompositor.drawFrame as the engine uses it: the frame becomes the
\* compositor's current frame.  The log notes whether the VideoFrame handed
\* over was still open.
drawFrame(s, frame) ==
  emit([s EXCEPT !.drawn = frame],
       <<"draw", frame.idx, FrameId(frame) \in s.openFrames>>)

\* decoder.on("error", ...) in setupEventHandlers
onDecoderError(s) ==
  IF "error" \in s.listeners
  THEN emit(setState(s, "error"), <<"error">>)
  ELSE s

\* An infoReady handler that sets the state to ready whatever it was.
onInfoReadyAlways(s, durationMs) ==
  LET s1 == [s EXCEPT !.mediaInfo = durationMs,
                      !.durationUs = durationMs * UsPerMs]
      s2 == emit(s1, <<"durationChange", durationMs>>)
  IN  setState(s2, "ready")

\* decoder.on("infoReady", ...) in setupEventHandlers
onInfoReady(s, durationMs) ==
  LET s1 == [s EXCEPT !.mediaInfo = durationMs,
                      !.durationUs = durationMs * UsPerMs]
      s2 == emit(s1, <<"durationChange", durationMs>>)
  IN  IF "infoReady" \notin s.listeners
      THEN s
      ELSE IF s2.state \in {"loading", "idle"}
      THEN setState(s2, "ready")
      ELSE s2

\* decoder.on("frameDecoded", ...) in setupEventHandlers
onFrameDecoded(s) ==
  IF "frameDecoded" \notin s.listeners \/ s.state \notin {"ready", "paused"}
  THEN s
  ELSE LET frame == getFrameAtTime(s.decodedFrames, s.currentTimeUs)
       IN  IF frame # NoFrame /\ frame # s.lastRenderedFrame
           THEN [drawFrame(s, frame) EXCEPT !.lastRenderedFrame = frame]
           ELSE s

(* ------------------------- VideoDecoderManager ------------------------ *)

\* VideoDecoderManager.setState
dmSetState(s, newState) ==
  IF s.dmState # newState
  THEN dmEmit([s EXCEPT !.dmState = newState], "stateChange",
              <<"dm.stateChange", newState>>)
  ELSE s

\* abortController?.abort(): a fetch still in flight rejects with an
\* AbortError, which load's catch ignores (error.name !== "AbortError").
abort(s) ==
  IF s.abortController = "live"
  THEN [s EXCEPT !.abortController = "aborted",
                 !.fetchState = IF @ \in {"pending", "body"}
                                THEN "aborted" ELSE @]
  ELSE s

\* VideoDecoderManager.failLoad
failLoad(s) ==
  LET s1 == dmSetState(s, "error")
      s2 == onDecoderError(dmEmit(s1, "error", <<"dm.error">>))
      s3 == abort(s2)
  IN  [s3 EXCEPT !.loadPromise = IF s3.loadPromiseReject /\ @ = "pending"
                                 THEN "rejected" ELSE @,
                 !.loadPromiseReject = FALSE,
                 !.failLoads = @ + 1]

\* A processQueue that hands the newest pending sample to the decoder first.
processQueueNewestFirst(s) ==
  IF s.decoder = Null \/ s.pendingSamples = << >>
  THEN s
  ELSE IF Len(s.decodedFrames) >= maxBufferedFrames
  THEN s
  ELSE IF s.decoder = "configured"
  THEN [s EXCEPT !.decodeQueue =
                    @ \o [i \in 1..Len(s.pendingSamples) |->
                            Chunk(s.pendingSamples[Len(s.pendingSamples) + 1 - i])],
                 !.pendingSamples = << >>]
  ELSE failLoad([s EXCEPT !.pendingSamples = Tail(@)])

\* VideoDecoderManager.processQueue.  decode() only queues the chunk: the
\* frame comes back later through the output callback, so decodedFrames
\* does not change inside the while loop.  decode() throws when the decoder
\* is not configured; the sample just shifted off the queue is then lost.
processQueue(s) ==
  IF s.decoder = Null \/ s.pendingSamples = << >>
  THEN s
  ELSE IF Len(s.decodedFrames) >= maxBufferedFrames
  THEN s
  ELSE IF s.decoder = "configured"
  THEN [s EXCEPT !.decodeQueue =
                    @ \o [i \in 1..Len(s.pendingSamples) |->
                            Chunk(s.pendingSamples[i])],
                 !.pendingSamples = << >>]
  ELSE failLoad([s EXCEPT !.pendingSamples = Tail(@)])

\* VideoDecoderManager.handleDecodedFrame
handleDecodedFrame(s, frame) ==
  LET s1 == [s EXCEPT !.decodedFrames = Append(@, frame),
                      !.openFrames = @ \cup {FrameId(frame)}]
      s2 == onFrameDecoded(dmEmit(s1, "frameDecoded",
                                 <<"dm.frameDecoded", frame.idx>>))
  IN  IF Len(s2.decodedFrames) < maxBufferedFrames
      THEN processQueue(s2)
      ELSE s2

\* The while loop of consumeFramesUpTo: frames leave the head of the buffer
\* as long as the head ends at or before timeUs.
RECURSIVE DropConsumed(_, _)
DropConsumed(frames, timeUs) ==
  IF frames # << >>
     /\ Head(frames).timestampUs + Head(frames).durationUs <= timeUs
  THEN DropConsumed(Tail(frames), timeUs)
  ELSE frames

\* VideoDecoderManager.consumeFramesUpTo
consumeFramesUpTo(s, timeUs) ==
  processQueue([s EXCEPT !.decodedFrames = DropConsumed(@, timeUs)])

\* VideoDecoderManager.clearBuffers
clearBuffers(s) ==
  [s EXCEPT !.openFrames = @ \ {FrameId(s.decodedFrames[i]) :
                                  i \in 1..Len(s.decodedFrames)},
            !.decodedFrames = << >>,
            !.pendingSamples = << >>]

\* VideoDecoderManager.initializeDecoder; outcome says whether the
\* constructor or configure() throws.  The log notes each decoder built.
initializeDecoder(s, outcome) ==
  IF outcome = "ctorThrows"
  THEN failLoad(s)
  ELSE IF outcome = "configThrows"
  THEN failLoad(emit([s EXCEPT !.decoder = "unconfigured",
                               !.decodeQueue = << >>],
                     <<"dm.newDecoder">>))
  ELSE processQueue(emit([s EXCEPT !.decoder = "configured",
                                   !.decodeQueue = << >>],
                         <<"dm.newDecoder">>))

\* An onVideoConfig that builds a decoder for every configuration.
onVideoConfigAlways(s, outcome) == initializeDecoder(s, outcome)

\* demuxerCallbacks.onVideoConfig
onVideoConfig(s, outcome) ==
  IF s.decoder = "configured" THEN s ELSE initializeDecoder(s, outcome)

\* demuxerCallbacks.onInfo
onInfo(s) ==
  LET s1 == dmSetState([s EXCEPT !.dmMediaInfo = DurationMs(s.sourceBuffer)],
                       "ready")
      s2 == onInfoReady(dmEmit(s1, "infoReady", <<"dm.infoReady">>),
                        DurationMs(s.sourceBuffer))
  IN  [s2 EXCEPT !.loadPromiseReject = FALSE,
                 !.loadPromise = IF @ = "pending" THEN "resolved" ELSE @]

\* demuxerCallbacks.onVideoSamples
onVideoSamples(s, samples) ==
  processQueue([s EXCEPT !.pendingSamples = @ \o samples])

\* A demuxer whose createVideoDecoderConfig does not insist on the avcC
\* description: the configuration of an avc1 track goes out without it.
demuxWholeFileLenient(s, outcome, ep) ==
  IF s.sourceBuffer = "malformed"
  THEN failLoad([s EXCEPT !.demuxer = "empty"])
  ELSE LET s1 == onVideoConfig([s EXCEPT !.demuxer = "extracting"], outcome)
           s2 == onInfo(s1)
       IN  onVideoSamples(s2, SamplesOf(s.sourceBuffer, 0, ep))

\* A fresh MP4Demuxer is given the whole file (appendData(buffer, 0) and
\* flush()): mp4box reports a parse error, or calls onReady and with it
\* MP4Demuxer.handleReady, which throws for an avc1 track without avcC
\* (createVideoDecoderConfig) and otherwise delivers the configuration, the
\* MediaInfo and, after start(), the samples of the track.
demuxWholeFile(s, outcome, ep) ==
  IF s.sourceBuffer = "malformed"
  THEN failLoad([s EXCEPT !.demuxer = "empty"])
  ELSE IF s.sourceBuffer = "noAvcC"
  THEN failLoad([s EXCEPT !.demuxer = "moov"])
  ELSE LET s1 == onVideoConfig([s EXCEPT !.demuxer = "extracting"], outcome)
           s2 == onInfo(s1)
       IN  onVideoSamples(s2, SamplesOf(s.sourceBuffer, 0, ep))

\* The part of VideoDecoderManager.seek after "await this.decoder.flush()";
\* seekDone records that the promise of seek was fulfilled.
\* MP4Demuxer.seek: mp4box throws when no moov box was parsed; otherwise it
\* repositions the track and start() hands over the samples from there (none
\* when handleReady never set the extraction options).  The whole file is
\* already in mp4box's buffers, so nothing is appended again.
seekResume(s, timeUs, ep, outcome) ==
  IF timeUs <= 0 /\ s.sourceBuffer # Null /\ s.demuxerCallbacks
  THEN LET s1 == demuxWholeFile([s EXCEPT !.demuxer = "empty"], outcome, ep)
       IN  dmSetState([s1 EXCEPT !.hasFullSourceBuffered = TRUE,
                                 !.seekDone = TRUE], "ready")
  ELSE IF s.demuxer = "empty"
  THEN s
  ELSE IF s.demuxer = "extracting"
  THEN dmSetState(
         onVideoSamples([s EXCEPT !.seekDone = TRUE],
                        SamplesOf(s.sourceBuffer,
                                  SeekSampleIndexIn(s.sourceBuffer, timeUs),
                                  ep)), "ready")
  ELSE dmSetState([s EXCEPT !.seekDone = TRUE], "ready")

\* VideoDecoderManager.seek up to the await: with a configured decoder the
\* rest runs when the flush completes, otherwise at once.
dmSeek(s, timeUs, outcome) ==
  LET s1 == clearBuffers(dmSetState(s, "seeking"))
      s2 == [s1 EXCEPT !.epoch = @ + 1]
  IN  IF s2.decoder = "configured"
      THEN [s2 EXCEPT !.decodeQueue = Append(@, FlushRequest(timeUs, s2.epoch))]
      ELSE seekResume(s2, timeUs, s2.epoch, outcome)

\* A reset that also empties the listener map, as dispose does.
resetRemovingListeners(s) ==
  LET s1 == [abort(s) EXCEPT !.abortController = Null,
                             !.loadPromiseReject = FALSE,
                             !.sourceBuffer = Null,
                             !.hasFullSourceBuffered = FALSE,
                             !.demuxerCallbacks = FALSE]
      s2 == [clearBuffers(s1) EXCEPT !.epoch = @ + 1,
                                     !.decoder = Null,
                                     !.decodeQueue = << >>,
                                     !.demuxer = Null,
                                     !.dmMediaInfo = NoInfo]
  IN  [dmSetState(s2, "idle") EXCEPT !.listeners = {}]

\* VideoDecoderManager.reset
reset(s) ==
  LET s1 == [abort(s) EXCEPT !.abortController = Null,
                             !.loadPromiseReject = FALSE,
                             !.sourceBuffer = Null,
                             !.hasFullSourceBuffered = FALSE,
                             !.demuxerCallbacks = FALSE]
      s2 == [clearBuffers(s1) EXCEPT !.epoch = @ + 1,
                                     !.decoder = Null,
                                     !.decodeQueue = << >>,
                                     !.demuxer = Null,
                                     !.dmMediaInfo = NoInfo]
  IN  dmSetState(s2, "idle")

\* VideoDecoderManager.dispose; removeAllListeners clears the listener map.
dmDispose(s) == [reset(s) EXCEPT !.listeners = {}]

\* VideoDecoderManager.load with the synchronous start of fetchAndDemux:
\* the timeout timer is armed and the fetch is issued.  The promise of the
\* load before, if it has not settled, is left with nobody to settle it:
\* reset has dropped its reject function, its demuxer and its callbacks,
\* and the AbortError of its fetch is ignored.
dmLoad(s) ==
  LET s1 == dmSetState(reset(s), "loading")
  IN  [s1 EXCEPT !.abortController = "live",
                 !.supersededLoad = IF s.loadPromise = "pending"
                                    THEN "pending" ELSE @,
                 !.loadPromise = "pending",
                 !.loadPromiseReject = TRUE,
                 !.demuxerCallbacks = TRUE,
                 !.demuxer = "empty",
                 !.timers = @ + 1,
                 !.fetchState = "pending"]

(* ---------------------------- FrameScheduler -------------------------- *)

\* FrameScheduler.scheduleFrame
scheduleFrame(s) == [s EXCEPT !.rafPending = @ + 1, !.rafId = "live"]

\* FrameScheduler.cancelFrame: cancelling a callback that already ran does
\* nothing.
cancelFrame(s) ==
  IF s.rafId = Null
  THEN s
  ELSE [s EXCEPT !.rafPending = IF s.rafId = "live" THEN @ - 1 ELSE @,
                 !.rafId = Null]

\* A setPlaybackRate that stores the rate as it is given.
setPlaybackRateUnclamped(s, rate10) == [s EXCEPT !.playbackRate = rate10]

\* FrameScheduler.setPlaybackRate, which PlaybackEngine.setPlaybackRate calls.
setPlaybackRate(s, rate10) ==
  [s EXCEPT !.playbackRate = Max(MinRate10, Min(MaxRate10, rate10))]

\* A play that keeps the time of the last callback before the pause.
schedulerPlayKeepingTime(s) ==
  IF s.isPlaying
  THEN s
  ELSE scheduleFrame(
         emit([s EXCEPT !.isPlaying = TRUE, !.resumed = TRUE],
              <<"scheduler.play">>))

\* FrameScheduler.play
schedulerPlay(s) ==
  IF s.isPlaying
  THEN s
  ELSE scheduleFrame(
         emit([s EXCEPT !.isPlaying = TRUE, !.lastFrameTime = Null,
                        !.resumed = TRUE],
              <<"scheduler.play">>))

\* A pause that lacks the guard on isPlaying.
schedulerPauseUnguarded(s) ==
  emit(cancelFrame([s EXCEPT !.isPlaying = FALSE]), <<"scheduler.pause">>)

\* FrameScheduler.pause
schedulerPause(s) ==
  IF ~s.isPlaying
  THEN s
  ELSE emit(cancelFrame([s EXCEPT !.isPlaying = FALSE]),
            <<"scheduler.pause">>)

\* Math.max(0, Math.min(timeUs, this.durationUs))
Clamp(timeUs, dur) ==
  IF timeUs = NaN THEN NaN ELSE Max(0, Min(timeUs, dur))

\* PlaybackEngine.onSeek up to its await: the Decoder Manager's seek starts.
onSeek(s, timeUs, outcome) == dmSeek(s, timeUs, outcome)

\* PlaybackEngine.onSeek after the await.
onSeekResume(s, timeUs) ==
  LET frame == getFrameAtTime(s.decodedFrames, timeUs)
  IN  IF frame # NoFrame
      THEN [drawFrame(s, frame) EXCEPT !.lastRenderedFrame = frame]
      ELSE s

\* A seek that takes its argument as an offset from the current time.
schedulerSeekRelative(s, timeUs, outcome) ==
  LET clampedTime == IF s.currentTimeUs = NaN
                     THEN NaN
                     ELSE Clamp(s.currentTimeUs + timeUs, s.durationUs)
      s1 == [s EXCEPT !.currentTimeUs = clampedTime, !.lastTickUs = NoTick]
      s2 == onSeek(emit(s1, <<"scheduler.seek", clampedTime>>),
                   clampedTime, outcome)
  IN  IF s2.isPlaying
      THEN [s2 EXCEPT !.lastFrameTime = Null, !.resumed = TRUE]
      ELSE s2

\* FrameScheduler.seek; the seek listener is PlaybackEngine.onSeek.
schedulerSeek(s, timeUs, outcome) ==
  LET clampedTime == Clamp(timeUs, s.durationUs)
      s1 == [s EXCEPT !.currentTimeUs = clampedTime, !.lastTickUs = NoTick]
      s2 == onSeek(emit(s1, <<"scheduler.seek", clampedTime>>),
                   clampedTime, outcome)
  IN  IF s2.isPlaying
      THEN [s2 EXCEPT !.lastFrameTime = Null, !.resumed = TRUE]
      ELSE s2

\* FrameScheduler.skipForward
schedulerSkipForward(s, amountMs, outcome) ==
  schedulerSeek(s, IF s.currentTimeUs = NaN
                   THEN NaN
                   ELSE s.currentTimeUs + amountMs * UsPerMs, outcome)

\* FrameScheduler.skipBackward
schedulerSkipBackward(s, amountMs, outcome) ==
  schedulerSeek(s, IF s.currentTimeUs = NaN
                   THEN NaN
                   ELSE s.currentTimeUs - amountMs * UsPerMs, outcome)

\* FrameScheduler.goToStart
schedulerGoToStart(s, outcome) == schedulerSeek(s, 0, outcome)

\* FrameScheduler.goToEnd
schedulerGoToEnd(s, outcome) == schedulerSeek(s, s.durationUs, outcome)

\* PlaybackEngine.onPlaybackTick
onPlaybackTick(s, timeUs) ==
  LET s1 == emit(s, <<"timeUpdate", timeUs>>)
      frame == getFrameAtTime(s1.decodedFrames, timeUs)
  IN  IF frame # NoFrame /\ frame # s1.lastRenderedFrame
      THEN consumeFramesUpTo(
             [drawFrame(s1, frame) EXCEPT
                !.openFrames = @ \ {FrameId(s1.lastRenderedFrame)},
                !.lastRenderedFrame = frame],
             timeUs - LookBehindUs)
      ELSE s1

\* deltaMs * 1000 * this.playbackRate, the rate being kept in tenths.
AdvanceUs(deltaMs, rate10) == (deltaMs * UsPerMs * rate10) \div 10

\* An onFrame that stops at the end of the media without setting the clock
\* back to the duration.
onFrameUnclamped(s, deltaMs) ==
  LET delta == IF s.lastFrameTime = Null THEN 0 ELSE deltaMs
      t1 == IF s.currentTimeUs = NaN
            THEN NaN
            ELSE s.currentTimeUs + AdvanceUs(delta, s.playbackRate)
      s1 == [s EXCEPT !.lastFrameTime = "set", !.currentTimeUs = t1,
                      !.resumed = FALSE]
      atEnd == t1 # NaN /\ t1 >= s1.durationUs
  IN  IF atEnd /\ ~s1.loop
      THEN schedulerPause(s1)
      ELSE LET t2 == IF atEnd
                     THEN (IF s1.durationUs = 0 THEN NaN
                                                ELSE t1 % s1.durationUs)
                     ELSE t1
               s2 == [s1 EXCEPT !.currentTimeUs = t2, !.lastTickUs = t2]
           IN  scheduleFrame(
                 onPlaybackTick(emit(s2, <<"scheduler.tick", t2>>), t2))

\* FrameScheduler.onFrame for a callback that finds the scheduler running;
\* deltaMs is the wall time since the previous callback.
onFrame(s, deltaMs) ==
  LET delta == IF s.lastFrameTime = Null THEN 0 ELSE deltaMs
      t1 == IF s.currentTimeUs = NaN
            THEN NaN
            ELSE s.currentTimeUs + AdvanceUs(delta, s.playbackRate)
      s1 == [s EXCEPT !.lastFrameTime = "set", !.currentTimeUs = t1,
                      !.resumed = FALSE]
      atEnd == t1 # NaN /\ t1 >= s1.durationUs
  IN  IF atEnd /\ ~s1.loop
      THEN schedulerPause([s1 EXCEPT !.currentTimeUs = s1.durationUs])
      ELSE LET t2 == IF atEnd
                     THEN (IF s1.durationUs = 0 THEN NaN
                                                ELSE t1 % s1.durationUs)
                     ELSE t1
               s2 == [s1 EXCEPT !.currentTimeUs = t2, !.lastTickUs = t2]
           IN  scheduleFrame(
                 onPlaybackTick(emit(s2, <<"scheduler.tick", t2>>), t2))

(* ----------------------- PlaybackEngine, public ----------------------- *)

\* A play that lacks the guard on the engine state.
playUnguarded(s) == schedulerPlay(setState(s, "playing"))

\* PlaybackEngine.play
play(s) ==
  IF s.state \in {"ready", "paused"}
  THEN schedulerPlay(setState(s, "playing"))
  ELSE s

\* PlaybackEngine.pause
pause(s) ==
  IF s.state = "playing"
  THEN schedulerPause(setState(s, "paused"))
  ELSE s

\* PlaybackEngine.togglePlayback
togglePlayback(s) == IF s.state = "playing" THEN pause(s) ELSE play(s)

\* PlaybackEngine.seek.  The argument is timeMs * 1000, the value seekMs
\* hands to FrameScheduler.seek.  The continuation of onSeek is a microtask:
\* it runs when seek has returned, if the Decoder Manager's seek is done.
seek(s, timeUs, outcome) ==
  LET wasPlaying == s.state = "playing"
      s1 == IF wasPlaying THEN schedulerPause(s) ELSE s
      s2 == schedulerSeek(setState(s1, "seeking"), timeUs, outcome)
      s3 == IF wasPlaying
            THEN setState(schedulerPlay(s2), "playing")
            ELSE setState(s2, "paused")
  IN  IF s3.seekDone THEN onSeekResume(s3, s2.currentTimeUs) ELSE s3

\* A listener of the engine's timeUpdate event that calls the engine from
\* inside the event: EventEmitter.emit runs the listeners synchronously.
listener(s, call, outcome) ==
  IF call.op = "pause" THEN pause(s)
  ELSE IF call.op = "play" THEN play(s)
  ELSE seek(s, call.timeMs * UsPerMs, outcome)

\* PlaybackEngine.onPlaybackTick after it has emitted timeUpdate.
onPlaybackTickRender(s1, timeUs) ==
  LET frame == getFrameAtTime(s1.decodedFrames, timeUs)
  IN  IF frame # NoFrame /\ frame # s1.lastRenderedFrame
      THEN consumeFramesUpTo(
             [drawFrame(s1, frame) EXCEPT
                !.openFrames = @ \ {FrameId(s1.lastRenderedFrame)},
                !.lastRenderedFrame = frame],
             timeUs - LookBehindUs)
      ELSE s1

\* PlaybackEngine.onPlaybackTick with such a listener subscribed.
onPlaybackTickListening(s, timeUs, call, outcome) ==
  onPlaybackTickRender(
    listener(emit(s, <<"timeUpdate", timeUs>>), call, outcome), timeUs)

\* FrameScheduler.onFrame with such a listener subscribed.
onFrameListening(s, deltaMs, call, outcome) ==
  LET delta == IF s.lastFrameTime = Null THEN 0 ELSE deltaMs
      t1 == IF s.currentTimeUs = NaN
            THEN NaN
            ELSE s.currentTimeUs + AdvanceUs(delta, s.playbackRate)
      s1 == [s EXCEPT !.lastFrameTime = "set", !.currentTimeUs = t1,
                      !.resumed = FALSE]
      atEnd == t1 # NaN /\ t1 >= s1.durationUs
  IN  IF atEnd /\ ~s1.loop
      THEN schedulerPause([s1 EXCEPT !.currentTimeUs = s1.durationUs])
      ELSE LET t2 == IF atEnd
                     THEN (IF s1.durationUs = 0 THEN NaN
                                                ELSE t1 % s1.durationUs)
                     ELSE t1
               s2 == [s1 EXCEPT !.currentTimeUs = t2, !.lastTickUs = t2]
           IN  scheduleFrame(
                 onPlaybackTickListening(
                   emit(s2, <<"scheduler.tick", t2>>), t2, call, outcome))

\* PlaybackEngine.load up to the return of the promise.
load(s) == dmLoad(setState(s, "loading"))

\* The .then of PlaybackEngine.load.
loadThen(s) ==
  LET s1 == [s EXCEPT !.mediaInfo = s.dmMediaInfo]
  IN  IF s1.state \in {"loading", "idle"} THEN setState(s1, "ready") ELSE s1

\* FrameScheduler.dispose
schedulerDispose(s) ==
  [schedulerPause(s) EXCEPT !.currentTimeUs = 0, !.durationUs = 0]

\* PlaybackEngine.dispose; the compositor's dispose drops its current frame.
dispose(s) ==
  LET s1 == dmDispose(schedulerDispose(s))
  IN  [s1 EXCEPT !.drawn = NoFrame,
                 !.mediaInfo = NoInfo,
                 !.lastRenderedFrame = NoFrame,
                 !.state = "idle",
                 !.disposed = TRUE]

\* Default amountMs of skipForward and skipBackward.
SkipAmountMs == 5000

(* --------------------------- CanvasCompositor -------------------------- *)

\* window.devicePixelRatio of the display.
DevicePixelRatio == 2

\* Width and height of the canvas element before the first resize.
InitialCanvas == [width |-> 300, height |-> 150]

\* Sizes (CSS pixels) the host resizes the canvas to.
CanvasSizes == { [width |-> 4, height |-> 4], [width |-> 8, height |-> 2] }

\* videoWidth and videoHeight, the coded size of the video.
VideoSize == [width |-> 2, height |-> 1]

\* The frames handed to drawFrame, and the layers the host can add.
FrameIds == {"A", "B"}
LayerIds == {"a", "b"}
ZIndexes == {1, 2}

\* drawFrame calls made in one behaviour, and conversions in flight at once.
MaxDraws == 2
MaxPending == 2

\* The compositor after its construction: fields of CanvasCompositor, the
\* canvas element (width, height, the scale of the context's transform, and
\* the paint operations since the last fill with the background) and the
\* createImageBitmap promises that are pending.  draws counts the drawFrame
\* calls; settled says how the last conversion to end has ended ("drawn",
\* "discarded" or "failed") and which frame it had converted.
NewCompositor ==
  [ layers |-> << >>, currentFrame |-> Null, frameToken |-> 0,
    width |-> InitialCanvas.width, height |-> InitialCanvas.height,
    transform |-> 1, canvas |-> << >>, conversions |-> << >>,
    draws |-> 0, settled |-> [how |-> "none", frame |-> Null] ]

\* CanvasCompositor.getDisplaySize
getDisplaySize(c) ==
  [ width |-> c.width \div DevicePixelRatio,
    height |-> c.height \div DevicePixelRatio ]

\* CanvasCompositor.calculateDrawRect with the default configuration
\* (maintainAspectRatio, scalingMode contain).  sourceAspect > targetAspect
\* is compared by cross-multiplication; the sizes of the model make every
\* division exact.
calculateDrawRect(sourceWidth, sourceHeight, targetWidth, targetHeight) ==
  LET wide == sourceWidth * targetHeight > targetWidth * sourceHeight
      width == IF wide THEN targetWidth
               ELSE (targetHeight * sourceWidth) \div sourceHeight
      height == IF wide THEN (targetWidth * sourceHeight) \div sourceWidth
                ELSE targetHeight
  IN  [ x |-> (targetWidth - width) \div 2,
        y |-> (targetHeight - height) \div 2,
        width |-> width, height |-> height ]

\* What a paint operation leaves on the canvas.
VideoPaint(frame, rect) ==
  [kind |-> "video", what |-> frame, zIndex |-> 0, rect |-> rect]
LayerPaint(layer, size) ==
  [ kind |-> "layer", what |-> layer.id, zIndex |-> layer.zIndex,
    rect |-> [x |-> 0, y |-> 0, width |-> size.width,
              height |-> size.height] ]

\* CanvasCompositor.renderVideoFrame up to createImageBitmap: the rectangle
\* and the token are fixed here, the drawing waits for the bitmap.
renderVideoFrame(c, size) ==
  IF c.currentFrame = Null
  THEN c
  ELSE [c EXCEPT !.conversions =
          Append(@, [ frame |-> c.currentFrame, token |-> c.frameToken,
                      rect |-> calculateDrawRect(VideoSize.width,
                                                 VideoSize.height,
                                                 size.width, size.height) ])]

\* Array.prototype.sort by zIndex, which is stable, on the visible layers.
RECURSIVE SortByZIndex(_)
SortByZIndex(ls) ==
  IF ls = << >> THEN << >>
  ELSE LET m == CHOOSE i \in 1..Len(ls) :
                  /\ \A j \in 1..Len(ls) : ls[i].zIndex <= ls[j].zIndex
                  /\ \A j \in 1..(i - 1) : ls[j].zIndex > ls[i].zIndex
           rest == SubSeq(ls, 1, m - 1) \o SubSeq(ls, m + 1, Len(ls))
       IN  <<ls[m]>> \o SortByZIndex(rest)

\* CanvasCompositor.renderLayers
renderLayers(c, size) ==
  LET visible == SelectSeq(c.layers, LAMBDA l : l.visible)
      sortedLayers == SortByZIndex(visible)
  IN  [c EXCEPT !.canvas =
         @ \o [i \in 1..Len(sortedLayers) |->
                 LayerPaint(sortedLayers[i], size)]]

\* CanvasCompositor.render: the fill with the background covers what was
\* painted before.
render(c) ==
  LET size == getDisplaySize(c)
      c1 == [c EXCEPT !.canvas = << >>]
      c2 == IF c1.currentFrame # Null THEN renderVideoFrame(c1, size) ELSE c1
  IN  renderLayers(c2, size)

\* CanvasCompositor.drawFrame
compositorDrawFrame(c, frame) ==
  render([c EXCEPT !.currentFrame = frame, !.frameToken = @ + 1])

\* CanvasCompositor.resize: setTransform replaces the transform.
resize(c, width, height) ==
  render([c EXCEPT !.width = width * DevicePixelRatio,
                   !.height = height * DevicePixelRatio,
                   !.transform = DevicePixelRatio])

\* CanvasCompositor.addLayer: Map.set keeps the place of a key it has.
addLayer(c, layer) ==
  IF \E i \in 1..Len(c.layers) : c.layers[i].id = layer.id
  THEN [c EXCEPT !.layers =
          [i \in 1..Len(@) |-> IF @[i].id = layer.id THEN layer ELSE @[i]]]
  ELSE [c EXCEPT !.layers = Append(@, layer)]

\* CanvasCompositor.removeLayer
removeLayer(c, id) ==
  [c EXCEPT !.layers = SelectSeq(@, LAMBDA l : l.id # id)]

\* CanvasCompositor.setLayerVisibility
setLayerVisibility(c, id, visible) ==
  [c EXCEPT !.layers =
     [i \in 1..Len(@) |-> IF @[i].id = id
                          THEN [@[i] EXCEPT !.visible = visible] ELSE @[i]]]

\* A continuation that draws its bitmap without looking at the token.
bitmapReadyUnchecked(c, i) ==
  LET conv == c.conversions[i]
  IN  [c EXCEPT !.conversions =
                  SubSeq(@, 1, i - 1) \o SubSeq(@, i + 1, Len(@)),
                !.canvas = Append(@, VideoPaint(conv.frame, conv.rect)),
                !.settled = [how |-> "drawn", frame |-> conv.frame]]

\* The continuation of createImageBitmap in renderVideoFrame, for the
\* conversion at place i: it draws if its token is still the frame token.
bitmapReady(c, i) ==
  LET conv == c.conversions[i]
      c1 == [c EXCEPT !.conversions =
               SubSeq(@, 1, i - 1) \o SubSeq(@, i + 1, Len(@))]
  IN  IF conv.token # c1.frameToken
      THEN [c1 EXCEPT !.settled = [how |-> "discarded", frame |-> conv.frame]]
      ELSE [c1 EXCEPT !.canvas = Append(@, VideoPaint(conv.frame, conv.rect)),
                      !.settled = [how |-> "drawn", frame |-> conv.frame]]

\* The catch of createImageBitmap: nothing is drawn.
bitmapFailed(c, i) ==
  [c EXCEPT !.conversions = SubSeq(@, 1, i - 1) \o SubSeq(@, i + 1, Len(@)),
            !.settled = [how |-> "failed", frame |-> c.conversions[i].frame]]

(* ------------------------------ actions ------------------------------- *)

\* What an action records about itself: the call it makes (togglePlayback
\* is a call of play or pause; skipForward, skipBackward, goToStart and
\* goToEnd are calls of seek) with its argument, and the engine state it
\* started from.
Did(op, arg) == [op |-> op, arg |-> arg, state |-> state]

\* hist.phase: "fresh" after a load, "played" once playback of the loaded
\* media has moved the clock past 0, "rewound" after a seek to 0 that came
\* after that and was not followed by another seek.  hist.pausedSeek: the
\* last host call that took effect was a seek made in state paused, and no
\* tick has moved the clock since.
NoHistory == [ phase |-> "fresh", pausedSeek |-> FALSE ]

\* engine.seek with its bookkeeping.
Seeking(timeUs, outcome) ==
  \E r \in {seek(Cur, timeUs, outcome)} :
      Commit([r EXCEPT !.ops = @ + 1,
                       !.hist = [ phase |->
                                    IF hist.phase = "fresh" THEN "fresh"
                                    ELSE IF r.currentTimeUs = 0 THEN "rewound"
                                    ELSE "played",
                                  pausedSeek |-> state = "paused" ]],
             Did("seek", timeUs))

Init ==
  /\ state = "idle"
  /\ mediaInfo = NoInfo
  /\ lastRenderedFrame = NoFrame
  /\ isPlaying = FALSE
  /\ currentTimeUs = 0
  /\ durationUs = 0
  /\ playbackRate = DefaultRate10
  /\ loop = FALSE
  /\ lastFrameTime = Null
  /\ rafPending = 0
  /\ rafId = Null
  /\ dmState = "idle"
  /\ decoder = Null
  /\ dmMediaInfo = NoInfo
  /\ pendingSamples = << >>
  /\ decodedFrames = << >>
  /\ abortController = Null
  /\ loadPromiseReject = FALSE
  /\ sourceBuffer = Null
  /\ hasFullSourceBuffered = FALSE
  /\ demuxerCallbacks = FALSE
  /\ demuxer = Null
  /\ loadPromise = "none"
  /\ fetchState = "none"
  /\ timers = 0
  /\ decodeQueue = << >>
  /\ drawn = NoFrame
  /\ epoch = 0
  /\ ops = 0
  /\ events = << >>
  /\ last = [op |-> "init", arg |-> 0, state |-> "idle", failLoads |-> 0]
  /\ hist = NoHistory
  /\ listeners = DecoderEvents
  /\ openFrames = {}
  /\ lastTickUs = NoTick
  /\ resumed = FALSE
  /\ supersededLoad = "none"
  /\ disposed = FALSE
  /\ comp = NewCompositor

\* A play or pause that took effect ends the quiet after a seek.
Unquiet(r) == IF r = Cur THEN r ELSE [r EXCEPT !.hist.pausedSeek = FALSE]

\* engine.load(url)
Load ==
  /\ ~disposed
  /\ ops < MaxOps
  /\ \E r \in {load(Cur)} :
       Commit([r EXCEPT !.ops = @ + 1, !.hist = NoHistory], Did("load", 0))

\* engine.play()
Play ==
  /\ ~disposed
  /\ \E r \in {play(Cur)} : Commit(Unquiet(r), Did("play", 0))

\* engine.pause()
Pause ==
  /\ ~disposed
  /\ \E r \in {pause(Cur)} : Commit(Unquiet(r), Did("pause", 0))

\* engine.togglePlayback(): the call of pause() or of play() it makes
TogglePlayback ==
  /\ ~disposed
  /\ \E r \in {togglePlayback(Cur)} :
       Commit(Unquiet(r),
              Did(IF state = "playing" THEN "pause" ELSE "play", 0))

\* engine.seek(timeMs)
Seek ==
  /\ ~disposed
  /\ ops < MaxOps
  /\ \E timeMs \in SeekTimesMs, outcome \in InitOutcomes :
       Seeking(timeMs * UsPerMs, outcome)

\* engine.seek(timeMs) called again with the time of the seek call just
\* made, before anything else has happened.
SeekAgain ==
  /\ ~disposed
  /\ last.op = "seek"
  /\ \E outcome \in InitOutcomes :
       \E r \in {seek(Cur, last.arg, outcome)} :
         Commit([r EXCEPT !.hist = [ phase |->
                                       IF hist.phase = "fresh" THEN "fresh"
                                       ELSE IF r.currentTimeUs = 0
                                       THEN "rewound" ELSE "played",
                                     pausedSeek |-> state = "paused" ]],
                Did("seekAgain", last.arg))

\* engine.skipForward(): seek(currentMs + amountMs)
SkipForward ==
  /\ ~disposed
  /\ ops < MaxOps
  /\ \E outcome \in InitOutcomes :
       LET t == IF currentTimeUs = NaN
                THEN NaN
                ELSE currentTimeUs + SkipAmountMs * UsPerMs
       IN  Seeking(t, outcome)

\* engine.skipBackward(): seek(Math.max(0, currentMs - amountMs))
SkipBackward ==
  /\ ~disposed
  /\ ops < MaxOps
  /\ \E outcome \in InitOutcomes :
       LET t == IF currentTimeUs = NaN
                THEN NaN
                ELSE Max(0, currentTimeUs - SkipAmountMs * UsPerMs)
       IN  Seeking(t, outcome)

\* engine.goToStart()
GoToStart ==
  /\ ~disposed
  /\ ops < MaxOps
  /\ \E outcome \in InitOutcomes :
       Seeking(0, outcome)

\* engine.goToEnd()
GoToEnd ==
  /\ ~disposed
  /\ ops < MaxOps
  /\ mediaInfo # NoInfo
  /\ \E outcome \in InitOutcomes :
       Seeking(mediaInfo * UsPerMs, outcome)

\* engine.setLoop(loop)
SetLoop ==
  \E b \in BOOLEAN :
    /\ ~disposed
    /\ b # loop
    /\ Commit([Cur EXCEPT !.loop = b], Did("setLoop", 0))

\* engine.setPlaybackRate(rate)
SetPlaybackRate ==
  /\ ~disposed
  /\ ops < MaxOps
  /\ \E rate10 \in Rates10 :
       \E r \in {setPlaybackRate(Cur, rate10)} :
         Commit([r EXCEPT !.ops = @ + 1], Did("setPlaybackRate", rate10))

\* engine.dispose(): the host is done with the engine and makes no further
\* call on it.
Dispose ==
  /\ ~disposed
  /\ \E r \in {dispose(Cur)} : Commit(r, Did("dispose", 0))

\* The response of the fetch arrives: with an error status fetchAndDemux
\* clears its timer and throws, and load's catch calls failLoad.
FetchResponse ==
  /\ fetchState = "pending"
  /\ \E ok \in BOOLEAN :
       IF ok
       THEN Commit([Cur EXCEPT !.fetchState = "body"], Did("response", 1))
       ELSE \E r \in {failLoad([Cur EXCEPT !.fetchState = "failed",
                                            !.timers = @ - 1])} :
              Commit(r, Did("response", 0))

\* The fetch or the reading of its body fails with a network error.
FetchNetworkError ==
  /\ fetchState \in {"pending", "body"}
  /\ \E r \in {failLoad([Cur EXCEPT !.fetchState = "failed"])} :
       Commit(r, Did("networkError", 0))

\* response.arrayBuffer() resolves: the rest of fetchAndDemux runs, and
\* with it every demuxer callback the file gives rise to.
FetchBody ==
  /\ fetchState = "body"
  /\ \E kind \in FileKinds, outcome \in InitOutcomes :
       \E s1 \in {demuxWholeFile([Cur EXCEPT !.fetchState = "done",
                                               !.timers = @ - 1,
                                               !.sourceBuffer = kind,
                                               !.hasFullSourceBuffered = TRUE],
                                   outcome, epoch)} :
       \E s2 \in {IF s1.loadPromise = "resolved" THEN loadThen(s1) ELSE s1} :
           Commit(s2, Did("body", 0))

\* A 15 s timer set by fetchAndDemux fires: this.abortController?.abort().
Timeout ==
  /\ timers > 0
  /\ \E r \in {abort([Cur EXCEPT !.timers = @ - 1])} :
       Commit(r, Did("timeout", 0))

\* The VideoDecoder outputs the frame of the chunk at the head of its queue.
DecoderOutput ==
  /\ decodeQueue # << >>
  /\ Head(decodeQueue).kind = "chunk"
  /\ \E r \in {handleDecodedFrame([Cur EXCEPT !.decodeQueue = Tail(@)],
                                    Head(decodeQueue).sample)} :
       Commit(r, Did("output", Head(decodeQueue).sample.idx))

\* The VideoDecoder fails: it closes itself, drops its queue (rejecting the
\* flush promises in it) and calls the error callback.
DecoderError ==
  /\ decoder = "configured"
  /\ \E r \in {failLoad([Cur EXCEPT !.decoder = "closed",
                                      !.decodeQueue = << >>])} :
       Commit(r, Did("decoderError", 0))

\* decoder.flush() resolves: VideoDecoderManager.seek continues, and after
\* it PlaybackEngine.onSeek.
FlushDone ==
  /\ decodeQueue # << >>
  /\ Head(decodeQueue).kind = "flush"
  /\ \E outcome \in InitOutcomes :
       \E req \in {Head(decodeQueue)} :
       \E s1 \in {seekResume([Cur EXCEPT !.decodeQueue = Tail(@)],
                               req.timeUs, req.sample.ep, outcome)} :
       \E s2 \in {IF s1.seekDone THEN onSeekResume(s1, req.timeUs) ELSE s1} :
           Commit(s2, Did("flushDone", 0))

\* An animation-frame callback runs.  The callbacks run in the order they
\* were requested, so the one rafId names is the last to run.
RafCallback ==
  /\ rafPending > 0
  /\ \E deltaMs \in TickDeltasMs :
       \E s0 \in {[Cur EXCEPT !.rafPending = @ - 1,
                                 !.rafId = IF rafPending = 1 /\ @ = "live"
                                           THEN "fired" ELSE @]} :
       \E s1 \in {IF s0.isPlaying THEN onFrame(s0, deltaMs) ELSE s0} :
       \E moved \in {/\ state = "playing" /\ mediaInfo # NoInfo
                      /\ s1.currentTimeUs # NaN /\ s1.currentTimeUs > 0} :
           Commit([s1 EXCEPT !.hist.pausedSeek = @ /\ ~isPlaying,
                             !.hist.phase = IF @ = "fresh" /\ isPlaying /\ moved
                                            THEN "played" ELSE @],
                  Did("raf", IF lastFrameTime = Null THEN 0 ELSE deltaMs))

Next ==
  \/ Load
  \/ Play
  \/ Pause
  \/ TogglePlayback
  \/ Seek
  \/ SeekAgain
  \/ SkipForward
  \/ SkipBackward
  \/ GoToStart
  \/ GoToEnd
  \/ SetLoop
  \/ SetPlaybackRate
  \/ Dispose
  \/ FetchResponse
  \/ FetchNetworkError
  \/ FetchBody
  \/ Timeout
  \/ DecoderOutput
  \/ DecoderError
  \/ FlushDone
  \/ RafCallback

Spec == Init /\ [][Next]_vars

(* ----------------------- re-entrant listeners -------------------------- *)

\* Calls a listener makes on the engine from inside an event.
ListenerCalls ==
  [op : {"pause", "play"}, timeMs : {0}]
    \cup [op : {"seek"}, timeMs : SeekTimesMs]

\* Most animation-frame callbacks requested and not yet run that the model
\* follows.
MaxCallbacks == 3

\* An animation-frame callback runs while a listener of timeUpdate is
\* subscribed that calls the engine.
RafCallbackListening ==
  /\ rafPending > 0
  /\ rafPending < MaxCallbacks
  /\ isPlaying
  /\ \E deltaMs \in TickDeltasMs, call \in ListenerCalls,
        outcome \in InitOutcomes :
       /\ call.op = "seek" => ops < MaxOps
       /\ \E s0 \in {[Cur EXCEPT !.rafPending = @ - 1,
                                  !.rafId = IF rafPending = 1 /\ @ = "live"
                                            THEN "fired" ELSE @]} :
          \E s1 \in {onFrameListening(s0, deltaMs, call, outcome)} :
            Commit([s1 EXCEPT !.ops = IF call.op = "seek" THEN @ + 1 ELSE @],
                   Did("raf", IF lastFrameTime = Null THEN 0 ELSE deltaMs))

\* The engine with a listener that calls it from inside timeUpdate: one
\* media is loaded and played.
ListenerNext ==
  \/ Load
  \/ FetchResponse
  \/ FetchBody
  \/ DecoderOutput
  \/ FlushDone
  \/ Play
  \/ Pause
  \/ RafCallback
  \/ RafCallbackListening

ListenerSpec == Init /\ [][ListenerNext]_vars

(* ------------------------ compositor actions -------------------------- *)

\* compositor.drawFrame(frame)
DrawFrame ==
  /\ comp.draws < MaxDraws
  /\ Len(comp.conversions) < MaxPending
  /\ \E frame \in FrameIds :
       comp' = [compositorDrawFrame(comp, frame) EXCEPT !.draws = @ + 1]
  /\ UNCHANGED engineVars

\* compositor.resize(width, height)
Resize ==
  /\ Len(comp.conversions) < MaxPending
  /\ \E size \in CanvasSizes : comp' = resize(comp, size.width, size.height)
  /\ UNCHANGED engineVars

\* compositor.addLayer(layer)
AddLayer ==
  /\ \E id \in LayerIds, z \in ZIndexes, v \in BOOLEAN :
       comp' = addLayer(comp, [id |-> id, zIndex |-> z, visible |-> v])
  /\ UNCHANGED engineVars

\* compositor.removeLayer(id)
RemoveLayer ==
  /\ \E id \in LayerIds : comp' = removeLayer(comp, id)
  /\ UNCHANGED engineVars

\* compositor.setLayerVisibility(id, visible)
SetLayerVisibility ==
  /\ \E id \in LayerIds, v \in BOOLEAN :
       comp' = setLayerVisibility(comp, id, v)
  /\ UNCHANGED engineVars

\* A createImageBitmap promise resolves; the promises resolve in any order.
BitmapReady ==
  /\ \E i \in 1..Len(comp.conversions) : comp' = bitmapReady(comp, i)
  /\ UNCHANGED engineVars

\* A createImageBitmap promise rejects.
BitmapFailed ==
  /\ \E i \in 1..Len(comp.conversions) : comp' = bitmapFailed(comp, i)
  /\ UNCHANGED engineVars

CompositorNext ==
  \/ DrawFrame
  \/ Resize
  \/ AddLayer
  \/ RemoveLayer
  \/ SetLayerVisibility
  \/ BitmapReady
  \/ BitmapFailed

\* The compositor driven by its host, apart from the engine.
CompositorSpec == Init /\ [][CompositorNext]_vars

(* ------------------------------- claims ------------------------------- *)

\* C1: the decoded-frame buffer never holds more than maxBufferedFrames
\* frames.
C1_BufferBounded == Len(decodedFrames) <= maxBufferedFrames

\* Names of the events in a log, and how often one occurs.
Names(log) == [i \in 1..Len(log) |-> log[i][1]]
Count(log, name) == Cardinality({i \in 1..Len(log) : log[i][1] = name})

\* The n-th state the log reports for the engine (stateChange events).
StateChanges(log) ==
  LET idx == {i \in 1..Len(log) : log[i][1] = "stateChange"}
      RECURSIVE build(_)
      build(S) == IF S = {} THEN << >>
                  ELSE LET m == CHOOSE x \in S : \A y \in S : x <= y
                       IN  <<log[m][2]>> \o build(S \ {m})
  IN  build(idx)

\* An error was reported in the log before any MediaInfo was delivered.
ErrorBeforeInfo(log) ==
  \E i \in 1..Len(log) :
    /\ log[i][1] = "dm.error"
    /\ \A j \in 1..(i - 1) : log[j][1] # "dm.infoReady"

\* Number of error events of the log that precede the first MediaInfo.
ErrorsBeforeInfo(log) ==
  Cardinality({i \in 1..Len(log) :
                 /\ log[i][1] = "dm.error"
                 /\ \A j \in 1..(i - 1) : log[j][1] # "dm.infoReady"})

\* C2: when an error occurs while the promise of load is pending and before
\* MediaInfo was delivered, the handler leaves the promise rejected, the
\* Decoder Manager in state error, one error event emitted for that error and
\* the fetch aborted.
C2_LoadErrorRejects ==
  [][ (loadPromise = "pending" /\ ErrorBeforeInfo(events'))
      => /\ loadPromise' = "rejected"
         /\ dmState' = "error"
         /\ ErrorsBeforeInfo(events') = 1
         /\ abortController' = "aborted"
         /\ fetchState' \notin {"pending", "body"} ]_vars

\* C3: every failure of the fetch (error status, network error, abort by
\* the timeout) puts the engine into state error with an error event and
\* rejects the promise of load.
C3_FetchFailureSurfaces ==
  [][ (fetchState \in {"pending", "body"}
       /\ fetchState' \in {"failed", "aborted"}
       /\ last'.op # "dispose")
      => /\ state' = "error"
         /\ Count(events', "error") = 1
         /\ loadPromise' = "rejected" ]_vars

\* C4: once the engine state is error, only load changes it (until the
\* engine is disposed of).
C4_ErrorIsTerminal ==
  [][ state = "error"
      => (state' = "error" \/ last'.op \in {"load", "dispose"}) ]_vars

\* C5: with loop off and media loaded, the tick that takes the clock of a
\* playing engine to or past the duration stops the scheduler at exactly the
\* duration, with no callback requested, and leaves the engine paused.
C5_EndOfMediaPauses ==
  [][ ( /\ last'.op = "raf"
        /\ mediaInfo # NoInfo
        /\ state = "playing" /\ isPlaying /\ ~loop
        /\ currentTimeUs # NaN
        /\ currentTimeUs + AdvanceUs(last'.arg, playbackRate) >= durationUs )
      => /\ ~isPlaying'
         /\ currentTimeUs' = durationUs
         /\ rafPending' = 0
         /\ state' = "paused" ]_vars

\* C6: engine.seek leaves the engine playing if it was playing and paused
\* otherwise, reports seeking before that state, and leaves the scheduler
\* running exactly if it was running.
C6_SeekSettlesAtOnce ==
  [][ last'.op = "seek"
      => LET final == IF state = "playing" THEN "playing" ELSE "paused"
             seen == StateChanges(events')
         IN  /\ state' = final
             /\ Len(seen) >= 2
             /\ seen[Len(seen)] = final
             /\ \E i \in 1..(Len(seen) - 1) : seen[i] = "seeking"
             /\ isPlaying' = isPlaying ]_vars

\* C7: play acts only in ready and paused, pause only in playing; elsewhere
\* they change neither the engine state nor the scheduler's running flag and
\* emit no stateChange.
C7_PlayPauseGuards ==
  [][ /\ last'.op = "play"
         => IF state \in {"ready", "paused"}
            THEN /\ state' = "playing" /\ isPlaying'
                 /\ StateChanges(events') = <<"playing">>
            ELSE /\ state' = state /\ isPlaying' = isPlaying
                 /\ StateChanges(events') = << >>
      /\ last'.op = "pause"
         => IF state = "playing"
            THEN /\ state' = "paused" /\ ~isPlaying'
                 /\ StateChanges(events') = <<"paused">>
            ELSE /\ state' = state /\ isPlaying' = isPlaying
                 /\ StateChanges(events') = << >> ]_vars

\* C7 witnesses: a play that started playback from paused.
C7_Witness ==
  /\ last.op = "play" /\ last.state = "paused"
  /\ state = "playing" /\ isPlaying

Healthy ==
  /\ mediaInfo # NoInfo /\ dmMediaInfo # NoInfo
  /\ decoder = "configured" /\ sourceBuffer = "valid"
  /\ dmState = "ready"

\* Decoding has gone as far as it can without further consumption: the
\* decoder has no work left and no seek is in progress, and samples wait
\* only because the buffer is full.
DecodingSettled ==
  /\ decodeQueue = << >>
  /\ pendingSamples = << >> \/ Len(decodedFrames) >= maxBufferedFrames

\* No tick of the clock, which stays within the duration, lets
\* consumeFramesUpTo drop the frame.
NeverConsumed(frame) ==
  frame.timestampUs + frame.durationUs > durationUs - LookBehindUs

\* Decoding is stalled: the decoder has no work and no flush in progress,
\* samples wait because the buffer is full, and the buffer holds only
\* frames decoded for an earlier position, none of which a tick can drop.
Stalled ==
  /\ decodeQueue = << >>
  /\ pendingSamples # << >>
  /\ Len(decodedFrames) >= maxBufferedFrames
  /\ \A i \in 1..Len(decodedFrames) :
       /\ decodedFrames[i].ep # epoch
       /\ NeverConsumed(decodedFrames[i])

\* Playback was resumed from 0 after the media had played past 0.
Replaying ==
  /\ hist.phase = "rewound" /\ state = "playing" /\ isPlaying
  /\ Healthy

\* C9: after the media has played past 0, seek(0) and play do not leave
\* decoding stalled: the frames from the start of the media can be decoded
\* and buffered again.
C9_ReplayNotStalled == Replaying => ~Stalled

\* C10: after a seek to t made while paused, once decoding has gone as far
\* as it can, getFrameAtTime(t) is a buffered frame whose timestamp is
\* within one frame duration of t.
C10_SeekFrameNearTarget ==
  (hist.pausedSeek /\ state = "paused" /\ Healthy /\ DecodingSettled)
  => LET frame == getFrameAtTime(decodedFrames, currentTimeUs)
     IN  /\ frame # NoFrame
         /\ Abs(frame.timestampUs - currentTimeUs) <= FrameDurationUs

\* C11: what a composite pass leaves on the canvas has the video frame
\* beneath every layer, the layers in ascending zIndex order, and only
\* layers that were visible when the pass ran.
C11_FrameBeneathLayers ==
  \A i, j \in 1..Len(comp.canvas) :
    i < j =>
      LET below == comp.canvas[i]
          above == comp.canvas[j]
      IN  /\ ~(below.kind = "layer" /\ above.kind = "video")
          /\ (below.kind = "layer" /\ above.kind = "layer")
               => below.zIndex <= above.zIndex

\* C12: a bitmap converted from a frame that drawFrame has since replaced
\* is never on the canvas: every painting of a video frame on the canvas
\* shows the current frame.
C12_StaleBitmapNotDrawn ==
  \A k \in 1..Len(comp.canvas) :
    comp.canvas[k].kind = "video" => comp.canvas[k].what = comp.currentFrame

\* C12 witness: drawFrame(B) came while the conversion of A was in flight,
\* B's bitmap was drawn and A's conversion ended after it, discarded.
C12_Witness ==
  /\ comp.currentFrame = "B" /\ comp.draws = 2 /\ comp.frameToken = 2
  /\ comp.settled = [how |-> "discarded", frame |-> "A"]
  /\ comp.conversions = << >>
  /\ \E k \in 1..Len(comp.canvas) :
       comp.canvas[k].kind = "video" /\ comp.canvas[k].what = "B"

\* The rectangle a frame is drawn in when the canvas has its present size.
LatestRect ==
  LET size == getDisplaySize(comp)
  IN  calculateDrawRect(VideoSize.width, VideoSize.height,
                        size.width, size.height)

\* C13: after a resize, the transform is one device-pixel-ratio scale, and
\* once the conversions have ended every painting of the frame left on the
\* canvas has the rectangle computed for the present size.
C13_ResizeGeometry ==
  comp.transform # 1 =>
    /\ comp.transform = DevicePixelRatio
    /\ comp.conversions = << >> =>
         \A k \in 1..Len(comp.canvas) :
           comp.canvas[k].kind = "video" => comp.canvas[k].rect = LatestRect

\* C14: when the body of the file being loaded holds an avc1 track without
\* an avcC description, the demuxer reports an error and emits neither a
\* video configuration nor the MediaInfo: the step that demuxes the file
\* emits the Decoder Manager's error and no infoReady, rejects the promise
\* of load, leaves the decoder unconfigured and ends with the engine in
\* state error.
C14_MissingAvcCFailsLoad ==
  [][(last'.op = "body" /\ sourceBuffer' = "noAvcC") =>
       /\ Count(events', "dm.error") = 1
       /\ Count(events', "error") = 1
       /\ Count(events', "dm.infoReady") = 0
       /\ Count(events', "durationChange") = 0
       /\ loadPromise = "pending" /\ loadPromise' = "rejected"
       /\ decoder' # "configured"
       /\ dmMediaInfo' = NoInfo
       /\ dmState' = "error"
       /\ state' = "error"]_vars

C14_Witness ==
  /\ last.op = "body" /\ sourceBuffer = "noAvcC"
  /\ loadPromise = "rejected" /\ state = "error" /\ decoder = Null
  /\ Count(events, "dm.error") = 1

\* A flush of the decoder requested by a seek has not resolved yet.
SeekPending == \E i \in 1..Len(decodeQueue) : decodeQueue[i].kind = "flush"

\* C15: an error the decoder or the demuxer reports after engine.seek was
\* issued and before the Decoder Manager's seek has completed leaves the
\* engine in state error, and the completion of that seek does not take the
\* engine out of state error.
C15_ErrorDuringSeekSticks ==
  [][/\ (Count(events', "error") > 0 /\ (last'.op = "seek" \/ SeekPending))
          => state' = "error"
     /\ (last'.op = "flushDone" /\ state = "error") => state' = "error"]_vars

\* C16: between one load and the next the MediaInfo is produced once: a
\* step in which the Decoder Manager emits infoReady emits it once (and the
\* engine durationChange once), and no infoReady was emitted since the load
\* (the Decoder Manager's mediaInfo, which load clears and onInfo sets, was
\* still unset), whatever seeks were made, a seek to 0 included.
C16_InfoOncePerLoad ==
  [][Count(events', "dm.infoReady") > 0 =>
       /\ dmMediaInfo = NoInfo
       /\ Count(events', "dm.infoReady") = 1
       /\ Count(events', "durationChange") = 1]_vars

\* C17: seek(t) called twice in a row with the same t in [0, duration]
\* leaves the current time and the engine state that the first call left.
C17_SeekIdempotent ==
  [][(last'.op = "seekAgain" /\ last'.arg >= 0 /\ last'.arg <= durationUs) =>
       /\ currentTimeUs' = currentTimeUs
       /\ currentTimeUs' = last'.arg
       /\ state' = state
       /\ isPlaying' = isPlaying]_vars

C17_Witness ==
  /\ last.op = "seekAgain" /\ last.arg = 100 * UsPerMs
  /\ mediaInfo # NoInfo /\ durationUs = MediaDurationMs * UsPerMs
  /\ currentTimeUs = last.arg /\ state = "playing" /\ isPlaying

\* Times handed to FrameScheduler.seek: before the start, the start, inside
\* the media and beyond its end.
SchedulerSeekTimesUs ==
  { 0 - FrameDurationUs, 0, FrameDurationUs,
    MediaDurationMs * UsPerMs + FrameDurationUs }

\* The seek events of the scheduler in a handler's event log.
SeekEvents(log) == SelectSeq(log, LAMBDA e : e[1] = "scheduler.seek")

\* C18: in every reachable state, FrameScheduler.seek(timeUs) returns with
\* the current time set to timeUs clamped to [0, duration] and has emitted
\* exactly one seek event, carrying the clamped time; FrameScheduler's
\* skipForward, skipBackward, goToStart and goToEnd return with the current
\* time within [0, duration].
C18_SeekClamps ==
  \A outcome \in InitOutcomes :
    /\ \A timeUs \in SchedulerSeekTimesUs :
         LET r == schedulerSeek(Cur, timeUs, outcome)
             clamped == Max(0, Min(timeUs, durationUs))
         IN  /\ r.currentTimeUs = clamped
             /\ SeekEvents(r.events) = << <<"scheduler.seek", clamped>> >>
    /\ \A r \in { schedulerSkipForward(Cur, SkipAmountMs, outcome),
                  schedulerSkipBackward(Cur, SkipAmountMs, outcome),
                  schedulerGoToStart(Cur, outcome),
                  schedulerGoToEnd(Cur, outcome) } :
         /\ r.currentTimeUs # NaN
         /\ r.currentTimeUs >= 0
         /\ r.currentTimeUs <= durationUs

\* The engine state when event i of a handler's log was emitted: the state
\* of the last stateChange before it, or the state the handler started in.
EngineStateAt(log, i, start) ==
  LET changes == {k \in 1..(i - 1) : log[k][1] = "stateChange"}
  IN  IF changes = {}
      THEN start
      ELSE log[CHOOSE k \in changes : \A j \in changes : j <= k][2]

\* Event i of the log is the engine's change to state ready.
BecomesReadyAt(log, i) ==
  /\ i <= Len(log)
  /\ log[i][1] = "stateChange"
  /\ log[i][2] = "ready"

\* C19: whenever the Decoder Manager emits infoReady, the engine sets the
\* scheduler's duration to durationMs * 1000 microseconds and emits
\* durationChange; it then changes state to ready if it was idle or loading
\* when the event arrived, and does not change state otherwise.
C19_InfoReadyHandled ==
  [][\A i \in 1..Len(events') :
       events'[i][1] = "dm.infoReady" =>
         /\ i + 1 <= Len(events')
         /\ events'[i + 1][1] = "durationChange"
         /\ events'[i + 1][2] = dmMediaInfo'
         /\ mediaInfo' = dmMediaInfo'
         /\ durationUs' = dmMediaInfo' * UsPerMs
         /\ BecomesReadyAt(events', i + 2)
              <=> EngineStateAt(events', i, state) \in {"idle", "loading"}]_vars

\* C19 witness: the MediaInfo arrived while the engine was loading.
C19_Witness ==
  /\ last.op = "body" /\ last.state = "loading"
  /\ state = "ready"
  /\ mediaInfo = MediaDurationMs
  /\ durationUs = MediaDurationMs * UsPerMs
  /\ \E i \in 1..Len(events) :
       /\ events[i][1] = "dm.infoReady"
       /\ BecomesReadyAt(events, i + 2)

\* C20: load keeps the listeners registered on the Decoder Manager before
\* the first load: only dispose changes the listener map, and every
\* stateChange, infoReady, frameDecoded and error event the Decoder Manager
\* emits before dispose, in a first load or a later one, reaches them.
C20_ListenersSurviveLoad ==
  [][/\ listeners' # listeners => last'.op = "dispose"
     /\ last'.op = "load" => listeners' = DecoderEvents
     /\ Count(events', "dm.lost") = 0]_vars

\* C20 witness: the body of a load arrives on an engine that has rendered
\* a frame of an earlier load, and the infoReady of the new load reaches the
\* listeners: the engine, loading until then, becomes ready.
C20_Witness ==
  /\ last.op = "body" /\ last.state = "loading"
  /\ lastRenderedFrame # NoFrame
  /\ listeners = DecoderEvents
  /\ Count(events, "dm.infoReady") = 1
  /\ Count(events, "dm.stateChange") = 1
  /\ state = "ready"

\* C21: setPlaybackRate(r) stores r clamped to [0.1, 4.0] (10 is stored as
\* 4.0 and 0 as 0.1), and a tick of a running scheduler advances the current
\* time by the elapsed wall time multiplied by the stored rate (before the
\* end of the media is handled).
C21_RateClamped ==
  [][/\ last'.op = "setPlaybackRate" =>
          /\ playbackRate' >= MinRate10 /\ playbackRate' <= MaxRate10
          /\ (last'.arg >= MinRate10 /\ last'.arg <= MaxRate10)
               => playbackRate' = last'.arg
          /\ last'.arg = 100 => playbackRate' = 40
          /\ last'.arg = 0 => playbackRate' = 1
     /\ (last'.op = "raf" /\ isPlaying /\ currentTimeUs # NaN) =>
          LET advanced == currentTimeUs
                            + (last'.arg * UsPerMs * playbackRate) \div 10
          IN  IF advanced < durationUs
              THEN currentTimeUs' = advanced
              ELSE currentTimeUs' = durationUs
                   \/ (loop /\ durationUs > 0
                            /\ currentTimeUs' = advanced % durationUs)
                   \/ (loop /\ durationUs = 0 /\ currentTimeUs' = NaN)]_vars

\* C21 witness: a rate of 0 was stored as 0.1, and a tick of 50 ms moved the
\* clock of the loaded media by 5 ms.
C21_Witness ==
  /\ last.op = "raf" /\ last.arg = 50
  /\ playbackRate = MinRate10
  /\ mediaInfo # NoInfo
  /\ currentTimeUs = 5 * UsPerMs

\* Decoding is stalled for good during playback with loop off: samples wait,
\* the decoder has no work and no flush in progress, the buffer is full, and
\* the frame at its head ends too late for any tick to evict it, the clock
\* never passing the duration.
PlaybackStalled ==
  /\ Healthy
  /\ state = "playing" /\ isPlaying /\ ~loop
  /\ currentTimeUs # NaN
  /\ decodeQueue = << >>
  /\ pendingSamples # << >>
  /\ Len(decodedFrames) >= maxBufferedFrames
  /\ NeverConsumed(Head(decodedFrames))

\* C22: while the engine is playing with loop off and samples remain
\* pending, a full buffer does not stall decoding for good: the engine is
\* never in a state in which no tick can evict a frame and so let the
\* pending samples reach the decoder.
C22_NoPermanentStall == ~PlaybackStalled

\* The frames of the decoded-frame buffer.
Buffered == {decodedFrames[i] : i \in 1..Len(decodedFrames)}

\* C23: a decoded frame that has left the buffer has been closed: every
\* VideoFrame still open is in the buffer or is the engine's last rendered
\* frame.
C23_FramesReleased ==
  \A id \in openFrames :
    \/ \E frame \in Buffered : FrameId(frame) = id
    \/ (lastRenderedFrame # NoFrame /\ FrameId(lastRenderedFrame) = id)

\* The samples of the pending-sample queue.
Pending == {pendingSamples[i] : i \in 1..Len(pendingSamples)}

\* C24: when the flush of a decoder seek completes and the seek settles, the
\* buffer holds no frame and the pending queue no sample from before that
\* seek.
C24_SeekLeavesNothingOld ==
  [][(/\ last'.op = "flushDone"
      /\ \E i \in 1..Len(events') : events'[i] = <<"dm.stateChange", "ready">>) =>
       LET ep == Head(decodeQueue).sample.ep
       IN  /\ \A frame \in Buffered' : frame.ep >= ep
           /\ \A sample \in Pending' : sample.ep >= ep]_vars

\* The end time of a decoded frame.
EndUs(frame) == frame.timestampUs + frame.durationUs

\* C25: a tick that renders a new frame calls consumeFramesUpTo(t) with t
\* 100 ms behind the clock; afterwards no buffered frame ends at or before
\* t, the frames taken out all ended at or before t, and the frames left are
\* the rest of the buffer in their original order.
C25_ConsumeUpTo ==
  [][(/\ last'.op = "raf"
      /\ lastRenderedFrame' # lastRenderedFrame
      /\ currentTimeUs' # NaN) =>
       LET t == currentTimeUs' - LookBehindUs
           k == Len(decodedFrames) - Len(decodedFrames')
       IN  /\ k >= 0
           /\ decodedFrames' = SubSeq(decodedFrames, k + 1, Len(decodedFrames))
           /\ \A i \in 1..k : EndUs(decodedFrames[i]) <= t
           /\ \A frame \in Buffered' : EndUs(frame) > t]_vars

\* The step is an animation-frame callback that emits a tick event.
Ticks == last'.op = "raf" /\ Count(events', "scheduler.tick") = 1

\* The tick of the step wraps around the end of the media.
Wraps ==
  /\ loop /\ currentTimeUs # NaN
  /\ currentTimeUs + AdvanceUs(last'.arg, playbackRate) >= durationUs

\* C26: a tick event reports a time strictly greater than the previous
\* tick's, unless a seek happened since that tick or this tick wraps around
\* (stated for ticks whose times are numbers; NaN is never greater).
C26_TicksIncrease ==
  [][(/\ Ticks /\ ~Wraps
      /\ lastTickUs # NoTick /\ lastTickUs # NaN /\ currentTimeUs' # NaN) =>
       currentTimeUs' > lastTickUs]_vars

\* C27: the first animation-frame callback after play(), or after a seek
\* made while running, adds no elapsed time to the clock: the clock keeps
\* its value, unless it already stands at or beyond the end of the media,
\* where onFrame's end handling wraps it around (loop on) or sets it to the
\* duration (loop off).
C27_NoTimeAddedOnResume ==
  [][(last'.op = "raf" /\ isPlaying /\ resumed) =>
       /\ last'.arg = 0
       /\ \/ currentTimeUs' = currentTimeUs
          \/ /\ loop /\ currentTimeUs # NaN /\ currentTimeUs >= durationUs
             /\ currentTimeUs' = IF durationUs = 0 THEN NaN
                                 ELSE currentTimeUs % durationUs
          \/ /\ ~loop /\ currentTimeUs # NaN /\ currentTimeUs >= durationUs
             /\ currentTimeUs' = durationUs]_vars

\* A first callback after a pause and a play, on a clock that had advanced.
C27_Witness ==
  /\ last.op = "raf" /\ last.arg = 0 /\ isPlaying /\ ~resumed
  /\ lastTickUs = currentTimeUs /\ currentTimeUs = 50 * UsPerMs
  /\ mediaInfo # NoInfo

\* The fields of the FrameScheduler.
SchedulerState ==
  << isPlaying, currentTimeUs, durationUs, playbackRate, loop, lastFrameTime,
     rafId, rafPending >>

\* The events the scheduler emitted in the step just taken.
SchedulerEvents(log) ==
  {i \in 1..Len(log) :
     log[i][1] \in {"scheduler.play", "scheduler.pause", "scheduler.seek",
                    "scheduler.tick"}}

\* C28: while the scheduler is stopped, a step that does not start it emits
\* no tick and changes the clock only through a seek (or the reset of
\* dispose); play() on a running scheduler and pause() on a stopped one emit
\* no scheduler event and leave the scheduler's fields as they are.
C28_PausedSchedulerIsStill ==
  [][/\ (~isPlaying /\ ~isPlaying' /\ last'.op # "dispose") =>
          /\ Count(events', "scheduler.tick") = 0
          /\ \/ currentTimeUs' = currentTimeUs
             \/ Count(events', "scheduler.seek") > 0
     /\ ((last'.op = "play" /\ isPlaying) \/ (last'.op = "pause" /\ ~isPlaying)) =>
          /\ SchedulerState' = SchedulerState
          /\ SchedulerEvents(events') = {}]_vars

\* A seek moved the clock of a scheduler that had played and was stopped.
C28_Witness ==
  /\ last.op = "seek" /\ last.state = "paused" /\ ~isPlaying
  /\ hist.phase = "played" /\ Count(events, "scheduler.seek") = 1
  /\ currentTimeUs = 100 * UsPerMs

\* play() took effect in the engine on a scheduler that was already running.
C28_WitnessPlay ==
  /\ last.op = "play" /\ last.state = "ready" /\ state = "playing"
  /\ isPlaying /\ ~resumed /\ currentTimeUs > 0

\* pause() took effect in the engine on a scheduler that had stopped, and a
\* callback ran after it.
C28_WitnessPause ==
  /\ last.op = "pause" /\ last.state = "playing" /\ state = "paused"
  /\ ~isPlaying /\ Count(events, "scheduler.pause") = 0

\* C29: with loop on, a tick that takes the clock to or past the duration
\* leaves it at that time modulo the duration, a number within
\* [0, duration], emits the tick and schedules a further callback.
C29_LoopWrapsInRange ==
  [][(last'.op = "raf" /\ isPlaying /\ Wraps) =>
       LET advanced == currentTimeUs + AdvanceUs(last'.arg, playbackRate)
       IN  /\ currentTimeUs' # NaN
           /\ currentTimeUs' >= 0 /\ currentTimeUs' <= durationUs
           /\ durationUs > 0 => currentTimeUs' = advanced % durationUs
           /\ Count(events', "scheduler.tick") = 1
           /\ rafId' = "live" /\ rafPending' >= 1]_vars

\* The samples on their way to the decoder's output, oldest first: those of
\* the chunks the decoder holds, then the pending ones.
RECURSIVE Submitted(_)
Submitted(queue) ==
  IF queue = << >> THEN << >>
  ELSE IF Head(queue).kind = "chunk"
  THEN << Head(queue).sample >> \o Submitted(Tail(queue))
  ELSE Submitted(Tail(queue))

InFlight == Submitted(decodeQueue) \o pendingSamples

\* C30: among the samples the demuxer emitted in one pass, the decoded
\* frames in the buffer, the chunks in the decoder and the pending samples
\* follow each other in the order of emission, none twice and none missing
\* in between; the pending queue still ends with the last sample emitted.
C30_SamplesInOrder ==
  LET all == decodedFrames \o InFlight
  IN  /\ \A i, j \in 1..Len(all) :
           (i < j /\ all[i].ep = all[j].ep) => all[i].idx < all[j].idx
      /\ \A i \in 1..(Len(all) - 1) :
           (all[i].ep = all[i + 1].ep /\ i >= Len(decodedFrames))
             => all[i + 1].idx = all[i].idx + 1
      /\ pendingSamples # << >>
           => pendingSamples[Len(pendingSamples)].idx
                = TrackLength(sourceBuffer) - 1

\* After a seek, two frames of the new pass are buffered and two chunks of
\* it are in the decoder.
C30_Witness ==
  /\ last.op = "output" /\ last.arg = 1 /\ epoch = 2
  /\ Len(decodedFrames) = 2 /\ decodedFrames[1].ep = 2
  /\ Len(Submitted(decodeQueue)) = 2

\* The flush of a seek to time 0 completes on a configured decoder: the
\* rebuilt demuxer delivers the video configuration again.
ConfigAgain ==
  /\ last'.op = "flushDone" /\ decoder = "configured"
  /\ decodeQueue # << >> /\ Head(decodeQueue).kind = "flush"
  /\ Head(decodeQueue).timeUs <= 0
  /\ sourceBuffer = "valid" /\ demuxerCallbacks

\* C31: a video configuration delivered while the decoder is configured
\* builds no decoder and leaves the decoder configured with the work it
\* held, and the samples delivered after it go to that decoder.
C31_ConfiguredDecoderKept ==
  [][ConfigAgain =>
       /\ Count(events', "dm.newDecoder") = 0
       /\ decoder' = "configured"
       /\ Submitted(decodeQueue') \o pendingSamples'
            = Submitted(Tail(decodeQueue)) \o pendingSamples
                \o SamplesFrom(0, Head(decodeQueue).sample.ep)]_vars

\* After such a seek the decoder, never rebuilt, has output a frame of the
\* samples delivered after the configuration.
C31_Witness ==
  /\ last.op = "output" /\ last.arg = 0 /\ epoch = 2
  /\ decoder = "configured" /\ hist.phase = "rewound"
  /\ decodedFrames # << >> /\ decodedFrames[Len(decodedFrames)].ep = 2

\* C32: the engine state is playing exactly when the scheduler is running.
C32_PlayingIffRunning == (state = "playing") <=> isPlaying

\* C33: the promise of a load that a later load superseded does not stay
\* pending.  Nothing holds the resolve or reject function of such a promise,
\* so one that is pending after the later load stays pending for ever.
C33_SupersededLoadSettles == supersededLoad # "pending"

\* C34: no frame handed to the compositor has a VideoFrame that was closed
\* before.
C34_NoClosedFrameDrawn ==
  \A i \in 1..Len(events) : events[i][1] = "draw" => events[i][3]

\* C35: a step that moves the scheduler's clock backward starts a seek of
\* the Decoder Manager (or resets it), which begins a new pass over the
\* samples.
C35_BackwardRepositions ==
  [][(/\ currentTimeUs # NaN /\ currentTimeUs' # NaN
      /\ currentTimeUs' < currentTimeUs) => epoch' > epoch]_vars

\* The step completes the last flush the decoder holds: every seek of the
\* Decoder Manager has settled.
LastSeekSettles ==
  /\ last'.op = "flushDone"
  /\ decodeQueue # << >> /\ Head(decodeQueue).kind = "flush"
  /\ \A i \in 1..Len(decodeQueue') : decodeQueue'[i].kind # "flush"

\* C36: when the last of the seeks in progress settles, the samples pending
\* and the samples handed to the decoder since are all samples the demuxer
\* produced for that last seek.
C36_OnlyLastSeekRemains ==
  [][LastSeekSettles =>
       \A i \in 1..Len(Submitted(decodeQueue') \o pendingSamples') :
          (Submitted(decodeQueue') \o pendingSamples')[i].ep
             = Head(decodeQueue).sample.ep]_vars

\* C37: in the states ready, playing and paused the engine has media info
\* and the scheduler's duration is that media's duration.
C37_ActiveStatesHaveMedia ==
  state \in {"ready", "playing", "paused"} =>
    /\ mediaInfo # NoInfo
    /\ durationUs = mediaInfo * UsPerMs

\* The step is the arrival of the file of a load: the file is demuxed, the
\* MediaInfo is delivered and the promise of load() resolves.
LoadCompletes ==
  /\ last'.op = "body"
  /\ \E i \in 1..Len(events') : events'[i][1] = "dm.infoReady"

\* C38: when a load completes on an engine whose current time was a time
\* of the media before (reached by playing or seeking in it), the current
\* time of the scheduler is a time of the new media: a number from 0 to the
\* new duration.
C38_TimeWithinNewMedia ==
  [][(/\ LoadCompletes
      /\ durationUs > 0
      /\ currentTimeUs # NaN /\ 0 <= currentTimeUs
      /\ currentTimeUs <= durationUs) =>
       /\ currentTimeUs' # NaN
       /\ 0 <= currentTimeUs' /\ currentTimeUs' <= durationUs']_vars

\* The step is a callback of the fetch, the demuxer or the decoder, not a
\* call on the engine.
CallbackStep ==
  last'.op \in {"response", "networkError", "body", "timeout", "output",
                "decoderError", "flushDone"}

\* A handler took the Decoder Manager out of the state error: its log has a
\* change to another state while the state was error, either from before
\* the handler (wasError) or from a change earlier in the log.
LeavesError(log, wasError) ==
  \E j \in 1..Len(log) :
     /\ log[j][1] = "dm.stateChange" /\ log[j][2] # "error"
     /\ \/ wasError
        \/ \E i \in 1..(j - 1) : log[i] = <<"dm.stateChange", "error">>

\* C39: once the state of the Decoder Manager is error, no callback takes it
\* out of error: not the MediaInfo of the demuxer, not the completion of a
\* seek that was in progress; only a call on the engine (the next load)
\* does.
C39_ErrorIsSticky ==
  [][CallbackStep =>
       /\ ~LeavesError(events', dmState = "error")
       /\ dmState = "error" => dmState' = "error"]_vars

\* C40: at most one animation-frame callback of the scheduler is requested
\* and not yet run, also when a listener calls pause, play or seek on the
\* engine from inside the callback; hence no animation frame runs two
\* callbacks and emits two ticks.
C40_OneCallbackPending == rafPending <= 1

====
